---- MODULE Spec2Model ----
(***************************************************************************)
(* Model of scripts/extract_set_piece_data.py: one run of                  *)
(* extract_set_piece_data().                                               *)
(*                                                                         *)
(* Text is held as a sequence of chunks whose concatenation is the text.   *)
(* A chunk is a single whitespace character ("\n", " ", ...) or a run of    *)
(* text without leading or trailing whitespace and without a newline.      *)
(* Every                                                                   *)
(* literal the regular expressions of the script look for (a club name,    *)
(* "Penalties", "Direct free-kicks", "Corners & indirect free-kicks") is   *)
(* one chunk, and no other chunk of the alphabet contains it, so a literal *)
(* matches the text exactly where it equals a chunk.                       *)
(***************************************************************************)
EXTENDS Naturals, Sequences, FiniteSets

VARIABLES fileText, outFile, pc, error, stdout, content, set_piece_data, i,
          start_pos, end_pos, club_section, corners_lines, cursor,
          corner_takers, notes, in_notes

vars == <<fileText, outFile, pc, error, stdout, content, set_piece_data, i,
          start_pos, end_pos, club_section, corners_lines, cursor,
          corner_takers, notes, in_notes>>

----------------------------------------------------------------------------
(* Literals of the script *)

clubs == <<"Arsenal", "Aston Villa", "Bournemouth", "Brentford", "Brighton",
           "Chelsea", "Crystal Palace", "Everton", "Fulham", "Ipswich",
           "Leicester", "Liverpool", "Man City", "Man Utd", "Newcastle",
           "Nott'm Forest", "Southampton", "Spurs", "West Ham", "Wolves">>

NL == "\n"
SP == " "
PenaltiesLit == "Penalties"
DirectLit == "Direct free-kicks"
CornersLit == "Corners & indirect free-kicks"
DoneMessage ==
    "Structured set piece data extracted and saved to set_piece_takers_structured.json"

Fields == {"penalties", "direct_free_kicks", "corners_indirect_free_kicks", "notes"}

EmptyRecord == [penalties |-> <<>>, direct_free_kicks |-> <<>>,
                corners_indirect_free_kicks |-> <<>>, notes |-> <<>>]

----------------------------------------------------------------------------
(* Strings as chunk sequences *)

Min(S) == CHOOSE x \in S : \A y \in S : x <= y
Max(S) == CHOOSE x \in S : \A y \in S : x >= y

\* A character is a string: an ASCII character stands for itself, a character
\* above U+007F is written as the six characters \uXXXX that json.dump puts into
\* the output file for it, a character above U+FFFF as the twelve characters of
\* its surrogate pair, and the backslash is written twice.

\* the whitespace characters of Python: TAB, LF, VT, FF, CR, FS, GS, RS, US and
\* space, then NEL, NBSP, OGHAM SPACE MARK, U+2000 to U+200A, LINE and PARAGRAPH
\* SEPARATOR, U+202F, U+205F and IDEOGRAPHIC SPACE
WhiteSpace == {"\t", "\n", "", "\f", "\r", "", "", "", "", " ",
               "\\u0085", "\\u00a0", "\\u1680", "\\u2000", "\\u2001", "\\u2002",
               "\\u2003", "\\u2004", "\\u2005", "\\u2006", "\\u2007", "\\u2008",
               "\\u2009", "\\u200a", "\\u2028", "\\u2029", "\\u202f", "\\u205f",
               "\\u3000"}

\* \s of the regular expressions, the characters str.strip() removes and the
\* separators of str.split()
IsSpace(c) == c \in WhiteSpace

\* the number of places the character that starts at place k of s takes
Width(s, k) ==
    IF SubSeq(s, k, k) # "\\" \/ k = Len(s) THEN 1
    ELSE IF SubSeq(s, k + 1, k + 1) = "u" /\ k + 5 <= Len(s)
    THEN IF /\ k + 11 <= Len(s)
            /\ SubSeq(s, k + 2, k + 3) \in {"d8", "d9", "da", "db"}
            /\ SubSeq(s, k + 6, k + 7) = "\\u"
            /\ SubSeq(s, k + 8, k + 9) \in {"dc", "dd", "de", "df"}
         THEN 12
         ELSE 6
    ELSE IF SubSeq(s, k + 1, k + 1) = "\\" THEN 2
    ELSE 1

\* the characters of s from place k on, in order
RECURSIVE CharsFrom(_, _)
CharsFrom(s, k) ==
    IF k > Len(s) THEN <<>>
    ELSE <<SubSeq(s, k, k + Width(s, k) - 1)>> \o CharsFrom(s, k + Width(s, k))

\* the characters of a string, in order
Chars(s) == CharsFrom(s, 1)

\* len() of a string
StrLen(s) == Len(Chars(s))

\* the text a chunk sequence stands for
RECURSIVE Join(_)
Join(s) == IF s = <<>> THEN "" ELSE Head(s) \o Join(Tail(s))

\* len() of the text before each chunk, and of the whole text at the end
RECURSIVE Offsets(_)
Offsets(text) ==
    IF text = <<>> THEN <<0>>
    ELSE LET o == Offsets(SubSeq(text, 1, Len(text) - 1))
         IN  Append(o, o[Len(o)] + StrLen(text[Len(text)]))

\* len() of the text before chunk p: the 0-based character offset of chunk p
Offset(text, p) == IF p <= 1 THEN 0 ELSE Offsets(text)[p]

\* text[a:b] for offsets a, b that are chunk boundaries (empty when b <= a)
Slice(text, a, b) ==
    LET o == Offsets(text)
        S == {p \in 1..Len(text) : o[p] >= a /\ o[p + 1] <= b}
    IN  IF S = {} THEN <<>> ELSE SubSeq(text, Min(S), Max(S))

\* str.strip()
RECURSIVE LStrip(_)
LStrip(s) == IF s # <<>> /\ IsSpace(Head(s)) THEN LStrip(Tail(s)) ELSE s
RECURSIVE RStrip(_)
RStrip(s) == IF s # <<>> /\ IsSpace(s[Len(s)])
             THEN RStrip(SubSeq(s, 1, Len(s) - 1)) ELSE s
Strip(s) == RStrip(LStrip(s))

\* str.split('\n'): the pieces between the newlines, at least one piece
RECURSIVE SplitLines(_)
SplitLines(s) ==
    LET N == {p \in 1..Len(s) : s[p] = NL}
    IN  IF N = {} THEN <<s>>
        ELSE <<SubSeq(s, 1, Min(N) - 1)>> \o SplitLines(SubSeq(s, Min(N) + 1, Len(s)))

LongNote == "Set pieces depend on the opponent and situation"

\* len(c.split()) of a string: the number of maximal runs of characters that
\* are not whitespace
TokensIn(c) ==
    LET cs == Chars(c)
    IN  Cardinality({k \in 1..Len(cs) :
                        ~IsSpace(cs[k]) /\ (k = 1 \/ IsSpace(cs[k - 1]))})

\* len(line.split()) of the text a chunk sequence stands for
WordCount(s) == TokensIn(Join(s))

\* the text as open(..., 'r') hands it over: "\r\n" and "\r" become "\n"
RECURSIVE UniversalNewlines(_)
UniversalNewlines(s) ==
    IF s = <<>> THEN <<>>
    ELSE IF Head(s) = "\r"
    THEN <<NL>> \o UniversalNewlines(IF Len(s) >= 2 /\ s[2] = NL
                                      THEN Tail(Tail(s)) ELSE Tail(s))
    ELSE <<Head(s)>> \o UniversalNewlines(Tail(s))

----------------------------------------------------------------------------
(* The regular expressions *)

\* f"{club}\\s*\\nPenalties" matches at chunk p
AnchorAt(name, text, p) ==
    /\ text[p] = name
    /\ \E q \in (p + 1)..(Len(text) - 1) :
          /\ \A j \in (p + 1)..q : IsSpace(text[j])
          /\ text[q] = NL
          /\ text[q + 1] = PenaltiesLit

\* the search with a pattern that allows no whitespace before the newline
SearchAnchorNoSpace(name, text) ==
    LET S == {p \in 1..(Len(text) - 2) :
                 text[p] = name /\ text[p + 1] = NL /\ text[p + 2] = PenaltiesLit}
    IN  IF S = {} THEN 0 ELSE Min(S)

\* re.search(club_pattern, content): chunk index of the first match, 0 for None
SearchAnchor(name, text) ==
    LET S == {p \in 1..Len(text) : AnchorAt(name, text, p)}
    IN  IF S = {} THEN 0 ELSE Min(S)

\* what may follow the captured lines
TermLiteral(lit, text, e) == e <= Len(text) /\ text[e] = lit
\* (?:\n\n|\Z)
TermBlankOrEnd(text, e) ==
    \/ e + 1 <= Len(text) /\ text[e] = NL /\ text[e + 1] = NL
    \/ e = Len(text) + 1

\* the terminator of the penalties pattern, and one that also accepts the end
\* of the text
TermDirectOrEnd(text, e) == TermLiteral(DirectLit, text, e) \/ e = Len(text) + 1

TermDirect(text, e) == TermLiteral(DirectLit, text, e)
TermCorners(text, e) == TermLiteral(CornersLit, text, e)

\* the tail of the pattern whose head is the given literal
TermAfter(head, text, e) ==
    IF head = PenaltiesLit THEN TermDirect(text, e)
    ELSE IF head = DirectLit THEN TermCorners(text, e)
    ELSE TermBlankOrEnd(text, e)

\* ((?:.*\n)+?) from chunk g: one or more whole lines, as few as possible;
\* the chunk index just after the group, 0 when no number of lines fits
GroupEnd(head, text, g) ==
    LET E == {e \in (g + 1)..(Len(text) + 1) :
                 text[e - 1] = NL /\ TermAfter(head, text, e)}
    IN  IF E = {} THEN 0 ELSE Min(E)

\* head\s*\n((?:.*\n)+?)tail tried at chunk p: \s* is greedy, so the longest
\* whitespace run that still leaves a newline and lets the rest match wins
GroupStarts(head, text, p) ==
    {g \in (p + 2)..(Len(text) + 1) :
        /\ text[p] = head
        /\ \A j \in (p + 1)..(g - 1) : IsSpace(text[j])
        /\ text[g - 1] = NL
        /\ GroupEnd(head, text, g) # 0}

\* re.search(head\s*\n((?:.*\n)+?)tail, text): group(1), or no match
BlockSearch(head, text) ==
    LET P == {p \in 1..Len(text) : GroupStarts(head, text, p) # {}}
    IN  IF P = {} THEN [found |-> FALSE, group |-> <<>>]
        ELSE LET g == Max(GroupStarts(head, text, Min(P)))
             IN  [found |-> TRUE, group |-> SubSeq(text, g, GroupEnd(head, text, g) - 1)]

PenaltiesSearch(section) == BlockSearch(PenaltiesLit, section)
FreeKicksSearch(section) == BlockSearch(DirectLit, section)
CornersSearch(section) == BlockSearch(CornersLit, section)

\* [p.strip() for p in text.strip().split('\n') if p.strip()]
RECURSIVE StripNonBlank(_)
StripNonBlank(ls) ==
    IF ls = <<>> THEN <<>>
    ELSE IF Strip(Head(ls)) = <<>> THEN StripNonBlank(Tail(ls))
    ELSE <<Join(Strip(Head(ls)))>> \o StripNonBlank(Tail(ls))

TakerLines(group) == StripNonBlank(SplitLines(Strip(group)))

----------------------------------------------------------------------------
(* Input texts *)

\* lines joined by newlines; the last newline is there when terminated
RECURSIVE Unlines(_, _)
Unlines(ls, terminated) ==
    IF ls = <<>> THEN <<>>
    ELSE IF Len(ls) = 1 THEN Head(ls) \o (IF terminated THEN <<NL>> ELSE <<>>)
    ELSE Head(ls) \o <<NL>> \o Unlines(Tail(ls), terminated)

\* every sequence of at most n lines, each line one of K
RECURSIVE LineSeqs(_, _)
LineSeqs(K, n) ==
    IF n = 0 THEN {<<>>}
    ELSE LET S == LineSeqs(K, n - 1)
         IN  S \cup {Append(ls, l) : ls \in {x \in S : Len(x) = n - 1}, l \in K}

\* texts that place club names and the Penalties heading freely
MaxSegLines == 4
SegKinds == {<<"Arsenal">>, <<"Arsenal", "\f", "\\u00a0">>, <<"Aston Villa">>, <<"Wolves">>,
             <<PenaltiesLit>>, <<"\\ud83d\\ude00", SP, "Saka">>, <<>>}
SegTexts == {Unlines(ls, t) : ls \in LineSeqs(SegKinds, MaxSegLines), t \in BOOLEAN}

\* texts that open one Arsenal section and fill it freely
MaxBodyLines == 4
BodyKinds == {<<PenaltiesLit>>, <<DirectLit>>, <<CornersLit>>, <<"Saka">>,
              <<"Declan", "\\u2003", "Rice", "\\u00a0">>, <<LongNote>>, <<>>}
BodyTexts == {Unlines(<<<<"Arsenal">>, <<PenaltiesLit>>>> \o ls, t) :
                 ls \in LineSeqs(BodyKinds, MaxBodyLines), t \in BOOLEAN}

\* texts that open an Aston Villa section, where an Arsenal anchor may follow
MaxSwapLines == 4
SwapKinds == {<<"Arsenal">>, <<PenaltiesLit>>, <<DirectLit>>, <<"Saka">>}
SwapTexts == {Unlines(<<<<"Aston Villa">>, <<PenaltiesLit>>>> \o ls, t) :
                 ls \in LineSeqs(SwapKinds, MaxSwapLines), t \in BOOLEAN}

\* the report of two clubs that are not neighbours in the roster
\* (Odegaard is written in ASCII; the spelling plays no part in the run)
ArsenalSection ==
    Unlines(<<<<"Arsenal">>, <<PenaltiesLit>>, <<"Saka">>, <<DirectLit>>, <<"Trossard">>,
              <<CornersLit>>, <<"Saka">>, <<"Odegaard">>, <<>>>>, TRUE)
ChelseaSection ==
    Unlines(<<<<"Chelsea">>, <<PenaltiesLit>>, <<"Palmer">>, <<DirectLit>>, <<"James">>,
              <<CornersLit>>, <<"Palmer">>, <<"James">>, <<>>>>, TRUE)
Scenario == ArsenalSection \o ChelseaSection

Inputs == SegTexts \cup BodyTexts \cup SwapTexts \cup {Scenario}

----------------------------------------------------------------------------
(* The run *)

OldOutput == [state |-> "old", doc |-> <<>>]

Init ==
    /\ fileText \in Inputs
    /\ outFile = OldOutput
    /\ pc = "read"
    /\ error = "none"
    /\ stdout = <<>>
    /\ content = <<>>
    /\ set_piece_data = <<>>
    /\ i = 0
    /\ start_pos = 0
    /\ end_pos = 0
    /\ club_section = <<>>
    /\ corners_lines = <<>>
    /\ cursor = 0
    /\ corner_takers = <<>>
    /\ notes = <<>>
    /\ in_notes = FALSE

club == clubs[i + 1]

\* the read of a run that has opened the output file before it reads the input
ReadInputAfterOpen ==
    /\ pc = "read"
    /\ \E outcome \in {"ok", "FileNotFoundError", "UnicodeDecodeError"} :
          IF outcome = "ok"
          THEN /\ content' = UniversalNewlines(fileText)
               /\ pc' = "loop"
               /\ error' = error
               /\ outFile' = outFile
          ELSE /\ error' = outcome
               /\ pc' = "aborted"
               /\ content' = content
               /\ outFile' = [state |-> "empty", doc |-> <<>>]
    /\ UNCHANGED <<fileText, stdout, set_piece_data, i, start_pos, end_pos,
                   club_section, corners_lines, cursor, corner_takers, notes, in_notes>>

\* lines 5-6: open and read the input file; a missing or undecodable file raises
ReadInput ==
    /\ pc = "read"
    /\ \E outcome \in {"ok", "FileNotFoundError", "UnicodeDecodeError"} :
          IF outcome = "ok"
          THEN /\ content' = UniversalNewlines(fileText)
               /\ pc' = "loop"
               /\ error' = error
          ELSE /\ error' = outcome
               /\ pc' = "aborted"
               /\ content' = content
    /\ UNCHANGED <<fileText, outFile, stdout, set_piece_data, i, start_pos, end_pos,
                   club_section, corners_lines, cursor, corner_takers, notes, in_notes>>

\* the end offset when the next club that has an anchor bounds the section
SectionEndNextPresent(text, idx) ==
    LET later == {k \in (idx + 2)..Len(clubs) : SearchAnchor(clubs[k], text) # 0}
    IN  IF later = {} THEN Offset(text, Len(text) + 1)
        ELSE Offset(text, SearchAnchor(clubs[Min(later)], text))

\* the end offset when the successor's anchor is searched from the club's own anchor
SectionEndAfterStart(text, idx) ==
    LET S == {p \in SearchAnchor(clubs[idx + 1], text)..Len(text) :
                 idx < Len(clubs) - 1 /\ AnchorAt(clubs[idx + 2], text, p)}
    IN  IF S = {} THEN Offset(text, Len(text) + 1) ELSE Offset(text, Min(S))

\* lines 26-31: the end offset of the section of the club at index i
SectionEnd(text, idx) ==
    IF idx < Len(clubs) - 1 /\ SearchAnchor(clubs[idx + 2], text) # 0
    THEN Offset(text, SearchAnchor(clubs[idx + 2], text))
    ELSE Offset(text, Len(text) + 1)

\* lines 17-22, anchor not found: nothing is done for this club
SkipClub ==
    /\ pc = "loop"
    /\ i < Len(clubs)
    /\ SearchAnchor(club, content) = 0
    /\ i' = i + 1
    /\ UNCHANGED <<fileText, outFile, pc, error, stdout, content, set_piece_data,
                   start_pos, end_pos, club_section, corners_lines, cursor,
                   corner_takers, notes, in_notes>>

\* a record created without its notes field
NewRecordNoNotes(data, name) ==
    [c \in DOMAIN data \cup {name} |->
        IF c = name
        THEN [penalties |-> <<>>, direct_free_kicks |-> <<>>,
              corners_indirect_free_kicks |-> <<>>]
        ELSE data[c]]

\* set_piece_data[club] = {...} of lines 37-42
NewRecord(data, name) ==
    [c \in DOMAIN data \cup {name} |-> IF c = name THEN EmptyRecord ELSE data[c]]

\* lines 17-42, anchor found: slice the section and create the record
Segment ==
    /\ pc = "loop"
    /\ i < Len(clubs)
    /\ SearchAnchor(club, content) # 0
    /\ start_pos' = Offset(content, SearchAnchor(club, content))
    /\ end_pos' = SectionEnd(content, i)
    /\ club_section' = Slice(content, start_pos', end_pos')
    /\ set_piece_data' = NewRecord(set_piece_data, club)
    /\ pc' = "penalties"
    /\ UNCHANGED <<fileText, outFile, error, stdout, content, i, corners_lines,
                   cursor, corner_takers, notes, in_notes>>

SetField(data, name, field, value) ==
    [data EXCEPT ![name] = [@ EXCEPT ![field] = value]]

\* lines 44-48
ExtractPenalties ==
    /\ pc = "penalties"
    /\ LET m == PenaltiesSearch(club_section)
       IN  set_piece_data' =
              IF m.found
              THEN SetField(set_piece_data, club, "penalties", TakerLines(m.group))
              ELSE set_piece_data
    /\ pc' = "free_kicks"
    /\ UNCHANGED <<fileText, outFile, error, stdout, content, i, start_pos, end_pos,
                   club_section, corners_lines, cursor, corner_takers, notes, in_notes>>

\* lines 50-54
ExtractFreeKicks ==
    /\ pc = "free_kicks"
    /\ LET m == FreeKicksSearch(club_section)
       IN  set_piece_data' =
              IF m.found
              THEN SetField(set_piece_data, club, "direct_free_kicks", TakerLines(m.group))
              ELSE set_piece_data
    /\ pc' = "corners"
    /\ UNCHANGED <<fileText, outFile, error, stdout, content, i, start_pos, end_pos,
                   club_section, corners_lines, cursor, corner_takers, notes, in_notes>>

\* lines 56-67, match: split the captured text into lines and start the scan
MatchCorners ==
    /\ pc = "corners"
    /\ CornersSearch(club_section).found
    /\ corners_lines' = SplitLines(Strip(CornersSearch(club_section).group))
    /\ cursor' = 0
    /\ corner_takers' = <<>>
    /\ notes' = <<>>
    /\ in_notes' = FALSE
    /\ pc' = "scan"
    /\ UNCHANGED <<fileText, outFile, error, stdout, content, set_piece_data, i,
                   start_pos, end_pos, club_section>>

\* lines 56-58, no match: the record keeps its empty corners and notes
NoCorners ==
    /\ pc = "corners"
    /\ ~CornersSearch(club_section).found
    /\ pc' = "loop"
    /\ i' = i + 1
    /\ UNCHANGED <<fileText, outFile, error, stdout, content, set_piece_data,
                   start_pos, end_pos, club_section, corners_lines, cursor,
                   corner_takers, notes, in_notes>>

\* a decision taken line by line, without the latch
IsTakerPerLine(line, latched) == WordCount(line) <= 2

\* line 75: the line goes to the takers
IsTaker(line, latched) == WordCount(line) <= 2 /\ ~latched

\* lines 68-79: one pass of the loop over corners_lines
ScanLine ==
    /\ pc = "scan"
    /\ cursor < Len(corners_lines)
    /\ cursor' = cursor + 1
    /\ LET line == Strip(corners_lines[cursor + 1])
       IN  IF line = <<>>
           THEN UNCHANGED <<corner_takers, notes, in_notes>>
           ELSE IF IsTaker(line, in_notes)
           THEN /\ corner_takers' = Append(corner_takers, Join(line))
                /\ UNCHANGED <<notes, in_notes>>
           ELSE /\ in_notes' = TRUE
                /\ notes' = Append(notes, Join(line))
                /\ UNCHANGED corner_takers
    /\ UNCHANGED <<fileText, outFile, pc, error, stdout, content, set_piece_data, i,
                   start_pos, end_pos, club_section, corners_lines>>

\* lines 81-82, then the next club
StoreCorners ==
    /\ pc = "scan"
    /\ cursor = Len(corners_lines)
    /\ set_piece_data' =
          SetField(SetField(set_piece_data, club, "corners_indirect_free_kicks",
                            corner_takers),
                   club, "notes", notes)
    /\ pc' = "loop"
    /\ i' = i + 1
    /\ UNCHANGED <<fileText, outFile, error, stdout, content, start_pos, end_pos,
                   club_section, corners_lines, cursor, corner_takers, notes, in_notes>>

\* line 85: open the output file for writing, which empties it; an unwritable
\* path raises and leaves the file alone
OpenOutput ==
    /\ pc = "loop"
    /\ i = Len(clubs)
    /\ \E writable \in BOOLEAN :
          IF writable
          THEN /\ outFile' = [state |-> "empty", doc |-> <<>>]
               /\ pc' = "dump"
               /\ error' = error
          ELSE /\ error' = "PermissionError"
               /\ pc' = "aborted"
               /\ outFile' = outFile
    /\ UNCHANGED <<fileText, stdout, content, set_piece_data, i, start_pos, end_pos,
                   club_section, corners_lines, cursor, corner_takers, notes, in_notes>>

\* line 86 and the end of the with block: the whole document is written
DumpJson ==
    /\ pc = "dump"
    /\ outFile' = [state |-> "written", doc |-> set_piece_data]
    /\ pc' = "print"
    /\ UNCHANGED <<fileText, error, stdout, content, set_piece_data, i, start_pos,
                   end_pos, club_section, corners_lines, cursor, corner_takers, notes,
                   in_notes>>

\* line 88
PrintDone ==
    /\ pc = "print"
    /\ stdout' = Append(stdout, DoneMessage)
    /\ pc' = "done"
    /\ UNCHANGED <<fileText, outFile, error, content, set_piece_data, i, start_pos,
                   end_pos, club_section, corners_lines, cursor, corner_takers, notes,
                   in_notes>>

Next ==
    \/ ReadInput
    \/ SkipClub
    \/ Segment
    \/ ExtractPenalties
    \/ ExtractFreeKicks
    \/ MatchCorners
    \/ NoCorners
    \/ ScanLine
    \/ StoreCorners
    \/ OpenOutput
    \/ DumpJson
    \/ PrintDone

Spec == Init /\ [][Next]_vars

----------------------------------------------------------------------------
(* Properties of the run *)

Roster == {clubs[k] : k \in 1..Len(clubs)}
ChunksOf(text) == {text[p] : p \in 1..Len(text)}
EndOfText(text) == Offset(text, Len(text) + 1)

\* the pass of the loop for a club with an anchor is under way
InSection == pc \in {"penalties", "free_kicks", "corners", "scan"}
\* such a pass has just ended: the record of clubs[i] is complete and
\* club_section is still that club's section
Finished == pc = "loop" /\ i >= 1 /\ clubs[i] \in DOMAIN set_piece_data
FinishedRecord == set_piece_data[clubs[i]]

\* the lines of a text after its first line
RestLines(text) == Tail(SplitLines(text))
FirstAt(lit, text) == Min({p \in 1..Len(text) : text[p] = lit})
\* the text from the first occurrence of a heading on
FromHeading(lit, section) == SubSeq(section, FirstAt(lit, section), Len(section))

\* C1: for the report made of the Arsenal section followed by the Chelsea
\* section, the Arsenal record of the output is penalties = [Saka],
\* direct_free_kicks = [Trossard], corners_indirect_free_kicks =
\* [Saka, Odegaard], notes = []: nothing of the Chelsea section is in it.
ArsenalExpected ==
    [penalties |-> <<"Saka">>, direct_free_kicks |-> <<"Trossard">>,
     corners_indirect_free_kicks |-> <<"Saka", "Odegaard">>, notes |-> <<>>]
C1_Scenario ==
    (pc = "done" /\ fileText = Scenario) =>
        /\ "Arsenal" \in DOMAIN outFile.doc
        /\ outFile.doc["Arsenal"] = ArsenalExpected

\* C2 as stated: the keys of the output are exactly the roster clubs whose
\* name is followed by a newline and then Penalties in the input.
StrictAnchorOccurs(name, text) ==
    \E p \in 1..(Len(text) - 2) :
        text[p] = name /\ text[p + 1] = NL /\ text[p + 2] = PenaltiesLit
C2_StrictAnchorKeys ==
    pc = "done" => DOMAIN outFile.doc = {c \in Roster : StrictAnchorOccurs(c, content)}

\* C2 as amended: the keys of the output are exactly the roster clubs whose
\* name is followed by optional whitespace, a newline and then Penalties in
\* the input; while the loop runs the records are those of the clubs passed
\* so far that have such an anchor, and a club without one raises no error.
SpacedAnchorOccurs(name, text) ==
    \E p \in 1..Len(text) :
        /\ text[p] = name
        /\ \E q \in (p + 1)..(Len(text) - 1) :
              /\ \A j \in (p + 1)..q : text[j] \in WhiteSpace
              /\ text[q] = NL
              /\ text[q + 1] = PenaltiesLit
ClubsPassed == IF InSection THEN i + 1 ELSE i
C2_AnchorKeys ==
    /\ pc \in {"loop", "penalties", "free_kicks", "corners", "scan"} =>
          /\ DOMAIN set_piece_data =
                {clubs[k] : k \in {j \in 1..ClubsPassed : SpacedAnchorOccurs(clubs[j], content)}}
          /\ error = "none"
    /\ pc = "done" =>
          DOMAIN outFile.doc = {c \in Roster : SpacedAnchorOccurs(c, content)}
C2_Witness ==
    /\ pc = "done"
    /\ "Arsenal" \in DOMAIN outFile.doc
    /\ "Aston Villa" \in ChunksOf(content)
    /\ "Aston Villa" \notin DOMAIN outFile.doc

\* C3: in a section that has the Corners & indirect free-kicks heading, the
\* lines put into corners_indirect_free_kicks and notes are exactly the
\* non-blank lines between the heading and the first blank line after it, or
\* the end of the section when no blank line follows.
RECURSIVE UntilBlank(_)
UntilBlank(ls) ==
    IF ls = <<>> \/ Strip(Head(ls)) = <<>> THEN <<>>
    ELSE <<Join(Strip(Head(ls)))>> \o UntilBlank(Tail(ls))
CornerBlock(section) == UntilBlank(RestLines(FromHeading(CornersLit, section)))
C3_CornerBlock ==
    (Finished /\ CornersLit \in ChunksOf(club_section)) =>
        FinishedRecord.corners_indirect_free_kicks \o FinishedRecord.notes
            = CornerBlock(club_section)

\* C4: at every point of the scan of the captured lines, the takers are the
\* longest leading run of scanned lines with at most 2 tokens, the notes are
\* every scanned line from the first longer one on, and in_notes tells whether
\* a longer line has been scanned; in_notes, once set, stays set for the rest
\* of the scan; the record stores the two lists of the finished scan.
RECURSIVE NonBlank(_)
NonBlank(ls) ==
    IF ls = <<>> THEN <<>>
    ELSE IF Strip(Head(ls)) = <<>> THEN NonBlank(Tail(ls))
    ELSE <<Strip(Head(ls))>> \o NonBlank(Tail(ls))
RECURSIVE JoinAll(_)
JoinAll(ls) == IF ls = <<>> THEN <<>> ELSE <<Join(Head(ls))>> \o JoinAll(Tail(ls))
RECURSIVE ShortRun(_)
ShortRun(ls) ==
    IF ls = <<>> \/ WordCount(Head(ls)) > 2 THEN 0 ELSE 1 + ShortRun(Tail(ls))
LeadingTakers(ls) == JoinAll(SubSeq(ls, 1, ShortRun(ls)))
TrailingNotes(ls) == JoinAll(SubSeq(ls, ShortRun(ls) + 1, Len(ls)))
Scanned == NonBlank(SubSeq(corners_lines, 1, cursor))
C4_ScanState ==
    /\ pc = "scan" =>
          /\ corner_takers = LeadingTakers(Scanned)
          /\ notes = TrailingNotes(Scanned)
          /\ in_notes = (ShortRun(Scanned) < Len(Scanned))
    /\ (Finished /\ FinishedRecord.corners_indirect_free_kicks \o FinishedRecord.notes # <<>>) =>
          /\ FinishedRecord.corners_indirect_free_kicks = LeadingTakers(NonBlank(corners_lines))
          /\ FinishedRecord.notes = TrailingNotes(NonBlank(corners_lines))
C4_Latch ==
    /\ []C4_ScanState
    /\ [][(pc = "scan" /\ in_notes /\ pc' = "scan") => in_notes']_vars
C4_Witness ==
    /\ Finished
    /\ Len(FinishedRecord.corners_indirect_free_kicks) >= 1
    /\ Len(FinishedRecord.notes) >= 2
    /\ FinishedRecord.notes[1] = LongNote
    /\ FinishedRecord.notes[2] = "Saka"

\* C5: in a section that has the Penalties heading and no Direct free-kicks
\* heading, both penalties and direct_free_kicks stay empty from the moment
\* the two searches have run, no error is raised, and the record is in the
\* document that is written.
NoDirectHeading(section) ==
    PenaltiesLit \in ChunksOf(section) /\ DirectLit \notin ChunksOf(section)
C5_NoDirectHeading ==
    /\ (pc \in {"corners", "scan"} /\ NoDirectHeading(club_section)) =>
          /\ set_piece_data[clubs[i + 1]].penalties = <<>>
          /\ set_piece_data[clubs[i + 1]].direct_free_kicks = <<>>
          /\ error = "none"
    /\ (Finished /\ NoDirectHeading(club_section)) =>
          /\ FinishedRecord.penalties = <<>>
          /\ FinishedRecord.direct_free_kicks = <<>>
          /\ error = "none"
    /\ pc \in {"print", "done"} => outFile.doc = set_piece_data
C5_Witness ==
    /\ Finished
    /\ NoDirectHeading(club_section)
    /\ "Saka" \in ChunksOf(club_section)
    /\ FinishedRecord.corners_indirect_free_kicks # <<>>

\* C6: when the roster successor of a club has no anchor in the text, or the
\* club is the last of the roster, the club's section starts at its anchor and
\* runs to the end of the document; this holds of the last roster club that
\* has an anchor.
NoLaterAnchor(k) == \A j \in (k + 1)..Len(clubs) : SearchAnchor(clubs[j], content) = 0
SuccessorAbsent(k) == k = Len(clubs) \/ SearchAnchor(clubs[k + 1], content) = 0
C6_RunsToEnd ==
    InSection =>
        /\ start_pos = Offset(content, SearchAnchor(clubs[i + 1], content))
        /\ NoLaterAnchor(i + 1) => SuccessorAbsent(i + 1)
        /\ SuccessorAbsent(i + 1) =>
              /\ end_pos = EndOfText(content)
              /\ club_section =
                    SubSeq(content, SearchAnchor(clubs[i + 1], content), Len(content))
C6_Witness ==
    /\ InSection
    /\ clubs[i + 1] = "Arsenal"
    /\ ~NoLaterAnchor(i + 1)
    /\ SuccessorAbsent(i + 1)
    /\ start_pos > 0

\* C7: a run that aborts leaves the output file as it was and prints nothing;
\* the output file is touched only after the input has been read and every
\* club has been passed; the message is printed only once the whole document
\* is in the file.
C7_Failure ==
    /\ pc = "aborted" => (outFile = OldOutput /\ stdout = <<>> /\ error # "none")
    /\ error # "none" => pc = "aborted"
    /\ outFile.state # "old" => (content = UniversalNewlines(fileText) /\ pc \in {"dump", "print", "done"})
    /\ stdout # <<>> =>
          /\ pc = "done"
          /\ stdout = <<DoneMessage>>
          /\ outFile.state = "written"
          /\ outFile.doc = set_piece_data
C7_Witness ==
    /\ pc = "aborted"
    /\ error = "PermissionError"
    /\ DOMAIN set_piece_data # {}

\* C8: every record, from its creation on and in the written document, has
\* exactly the four fields, each a sequence of strings; a field whose heading
\* is not in the section is the empty sequence.
IsRecordShape(r) == DOMAIN r = Fields /\ \A f \in Fields : r[f] \in Seq(STRING)
C8_RecordShape ==
    /\ \A c \in DOMAIN set_piece_data : IsRecordShape(set_piece_data[c])
    /\ \A c \in DOMAIN outFile.doc : IsRecordShape(outFile.doc[c])
    /\ (Finished /\ DirectLit \notin ChunksOf(club_section)) =>
          FinishedRecord.direct_free_kicks = <<>>
    /\ (Finished /\ CornersLit \notin ChunksOf(club_section)) =>
          /\ FinishedRecord.corners_indirect_free_kicks = <<>>
          /\ FinishedRecord.notes = <<>>
C8_Witness ==
    /\ pc = "done"
    /\ \E c \in DOMAIN outFile.doc :
          /\ outFile.doc[c].penalties # <<>>
          /\ outFile.doc[c].direct_free_kicks = <<>>
          /\ outFile.doc[c].notes # <<>>

\* C9: the penalties of a section are exactly the trimmed non-blank lines
\* between the Penalties heading and the first following line that starts
\* with Direct free-kicks (none when no such line follows).
StartsWithDirect(line) == line # <<>> /\ line[1] = DirectLit
PenaltyBlock(section) ==
    IF PenaltiesLit \notin ChunksOf(section) THEN <<>>
    ELSE LET ls == RestLines(FromHeading(PenaltiesLit, section))
             D == {k \in 1..Len(ls) : StartsWithDirect(ls[k])}
         IN  IF D = {} THEN <<>> ELSE JoinAll(NonBlank(SubSeq(ls, 1, Min(D) - 1)))
C9_PenaltyBlock == Finished => FinishedRecord.penalties = PenaltyBlock(club_section)

\* C10: when the first anchor of the roster successor lies before the first
\* anchor of a club, the club's section is the empty text, its record is
\* created and stays empty in all four fields up to the written document, and
\* no error is raised; no step changes the record of a club other than the
\* one being processed.
OutOfOrder(k, text) ==
    /\ k < Len(clubs)
    /\ SearchAnchor(clubs[k], text) # 0
    /\ SearchAnchor(clubs[k + 1], text) # 0
    /\ SearchAnchor(clubs[k + 1], text) < SearchAnchor(clubs[k], text)
C10_State ==
    /\ (InSection /\ OutOfOrder(i + 1, content)) =>
          /\ club_section = <<>>
          /\ set_piece_data[clubs[i + 1]] = EmptyRecord
          /\ error = "none"
    /\ pc = "done" =>
          \A k \in 1..Len(clubs) :
              OutOfOrder(k, content) =>
                  /\ clubs[k] \in DOMAIN outFile.doc
                  /\ outFile.doc[clubs[k]] = EmptyRecord
OthersUntouched ==
    \A c \in DOMAIN set_piece_data :
        (c \in DOMAIN set_piece_data' /\ set_piece_data'[c] # set_piece_data[c])
            => (i < Len(clubs) /\ c = clubs[i + 1])
C10_OutOfOrder == []C10_State /\ [][OthersUntouched]_vars
C10_Witness ==
    /\ pc = "done"
    /\ OutOfOrder(1, content)
    /\ outFile.doc["Arsenal"] = EmptyRecord
    /\ outFile.doc["Aston Villa"].penalties # <<>>

====
